---- MODULE Spec2Model ----
(***************************************************************************)
(* The resource-lock manager of include/ibm/locks.hpp (class lock and its   *)
(* single instance lockobject): the lock table, the transaction-id counter  *)
(* and the two public operations Acquirelock and Releaselock.               *)
(***************************************************************************)
EXTENDS Integers, Sequences, FiniteSets, TLC

VARIABLES
    locktable,      \* std::map<uint32_t, lockrequests>: transaction id -> batch
    transactionID,  \* uint32_t counter of the lock object
    arg,            \* the input of the last call
    ret,            \* the value the last call returned
    before,         \* the lock object as the last call found it
    granted,        \* the transaction ids returned by successful Acquirelock calls, in order
    released,       \* the transaction ids erased by releaselock so far
    calls           \* the calls in progress when several threads call the lock object

vars == <<locktable, transactionID, arg, ret, before, granted, released, calls>>

(***************************************************************************)
(* Bounds of the model.                                                     *)
(***************************************************************************)
MaxTid == 2      \* transaction ids issued in one run
MaxBatch == 2    \* records in one Acquirelock call
MaxRids == 2     \* transaction ids in one Releaselock call

(***************************************************************************)
(* Program constants.                                                       *)
(***************************************************************************)
HalfWord == 65536           \* a uint32_t is two 16-bit halves: it wraps at HalfWord^2
MinSegments == 2
MaxSegments == 6
MinSegmentLength == 1
MaxSegmentLength == 4
MaxLockFlags == 2           \* lockflag >= 2 is rejected

(***************************************************************************)
(* Data.  A lockrequest is the tuple session-id | hmc-id | locktype |       *)
(* resourceid | segmentinfo; a segment is the pair LockFlag | SegmentLength.*)
(***************************************************************************)
Seg(flag, length) == [flag |-> flag, length |-> length]

LockRequest(sessionId, hmcId, lockType, resourceId, segments) ==
    [sessionId |-> sessionId, hmcId |-> hmcId, lockType |-> lockType,
     resourceId |-> resourceId, segments |-> segments]

\* lockrequest(): the value-initialised tuple returned with a successful
\* ownership check.
EmptyRequest == LockRequest("", "", "", <<0, 0, 0, 0, 0, 0, 0, 0>>, <<>>)

\* What a read of storage that holds no lockrequest yields.
GarbageRequest == LockRequest("?", "?", "?", <<0, 0, 0, 0, 0, 0, 0, 0>>, <<>>)

\* A resource id is the uint64_t given by its eight bytes in memory order,
\* the order in which checkbyte indexes it.
\* ResA and ResB agree in byte 0 and differ in byte 1.
ResA == <<2, 1, 0, 0, 0, 0, 0, 0>>
ResB == <<2, 7, 0, 0, 0, 0, 0, 0>>

\* The records callers submit in this model.  Two owners: session s1 at
\* console c1 and session s2 at console c2.  WriteDont locks nothing below
\* its two segments; ReadAll locks everything below its second segment;
\* ReadOther is a Read record of the other owner that differs from ReadAll
\* in resource, segment count, flags and lengths; WriteThree has a third
\* segment, flagged LockSame; WriteShort has too few segments to be valid.
WriteDont  == LockRequest("s1", "c1", "Write", ResA, <<Seg("DontLock", 2), Seg("DontLock", 2)>>)
ReadAll    == LockRequest("s2", "c2", "Read", ResA, <<Seg("DontLock", 2), Seg("LockAll", 2)>>)
WriteThree == LockRequest("s2", "c2", "Write", ResA,
                          <<Seg("DontLock", 2), Seg("DontLock", 2), Seg("LockSame", 1)>>)
ReadOther  == LockRequest("s1", "c1", "Read", ResB,
                          <<Seg("LockAll", 1), Seg("DontLock", 4), Seg("DontLock", 1)>>)
WriteShort == LockRequest("s1", "c1", "Write", ResA, <<Seg("DontLock", 2)>>)

Records == {WriteDont, ReadAll, ReadOther, WriteThree, WriteShort}

RECURSIVE SeqsUpTo(_, _)
SeqsUpTo(S, n) ==
    IF n = 0 THEN {<<>>}
    ELSE LET shorter == SeqsUpTo(S, n - 1)
         IN  shorter \cup {Append(s, x) : s \in {t \in shorter : Len(t) = n - 1}, x \in S}

Batches == SeqsUpTo(Records, MaxBatch)

TransactionIds == 1..MaxTid
RidLists == SeqsUpTo(TransactionIds, MaxRids)

\* The std::pair<stype, stype> handed to Releaselock.
Identities == {<<"c1", "s1">>, <<"s1", "c1">>, <<"c2", "s2">>}

(***************************************************************************)
(* isvalidlockrequest                                                       *)
(***************************************************************************)
\* The locking-flag test counting LockSame segments only.
IsLockingFlag_sameonly(flag) == flag = "LockSame"

IsLockingFlag(flag) == flag = "LockSame" \/ flag = "LockAll"

\* The number of LockSame/LockAll segments among the first n segments.
RECURSIVE lockflagcount(_, _)
lockflagcount(segments, n) ==
    IF n = 0 THEN 0
    ELSE lockflagcount(segments, n - 1) + (IF IsLockingFlag(segments[n].flag) THEN 1 ELSE 0)

\* isvalidlockrequest with the segment-count test written >= and <=, so that
\* the boundary counts are refused.
isvalidlockrequest_boundsrefused(reflockrecord) ==
    /\ reflockrecord.lockType = "Read" \/ reflockrecord.lockType = "Write"
    /\ ~(Len(reflockrecord.segments) >= MaxSegments \/ Len(reflockrecord.segments) <= MinSegments)
    /\ \A k \in 1..Len(reflockrecord.segments) :
          LET p == reflockrecord.segments[k]
          IN  /\ p.flag = "LockSame" \/ p.flag = "LockAll" \/ p.flag = "DontLock"
              /\ ~(p.length < MinSegmentLength \/ p.length > MaxSegmentLength)
              /\ ~(IsLockingFlag(p.flag) /\ lockflagcount(reflockrecord.segments, k) >= MaxLockFlags)

isvalidlockrequest(reflockrecord) ==
    /\ reflockrecord.lockType = "Read" \/ reflockrecord.lockType = "Write"
    /\ ~(Len(reflockrecord.segments) > MaxSegments \/ Len(reflockrecord.segments) < MinSegments)
    /\ \A k \in 1..Len(reflockrecord.segments) :
          LET p == reflockrecord.segments[k]
          IN  /\ p.flag = "LockSame" \/ p.flag = "LockAll" \/ p.flag = "DontLock"
              /\ ~(p.length < MinSegmentLength \/ p.length > MaxSegmentLength)
              /\ ~(IsLockingFlag(p.flag) /\ lockflagcount(reflockrecord.segments, k) >= MaxLockFlags)

(***************************************************************************)
(* checkbyte and isconflictrecord                                           *)
(***************************************************************************)
\* p[j] of the uint8_t view of a uint64_t, j counted from 0.
ByteOf(resourceid, j) == resourceid[j + 1]

checkbyte(resourceid1, resourceid2, j) == ByteOf(resourceid1, j) = ByteOf(resourceid2, j)

\* segmentverdict with equal segment bytes taken as a conflict of the pair.
segmentverdict_equalbytesconflict(p, q, resourceid1, resourceid2) ==
    IF p.flag = "LockAll" \/ q.flag = "LockAll" THEN "conflict"
    ELSE IF (p.flag = "LockSame" \/ q.flag = "LockSame") /\ p.length = q.length THEN "conflict"
    ELSE IF p.length # q.length THEN "noconflict"
    ELSE IF \E j \in 0..(p.length - 1) : ~checkbyte(resourceid1, resourceid2, j) THEN "noconflict"
    ELSE "conflict"

\* segmentverdict looking for LockAll on the first record only.
segmentverdict_ownlockall(p, q, resourceid1, resourceid2) ==
    IF p.flag = "LockAll" THEN "conflict"
    ELSE IF (p.flag = "LockSame" \/ q.flag = "LockSame") /\ p.length = q.length THEN "conflict"
    ELSE IF p.length # q.length THEN "noconflict"
    ELSE IF \E j \in 0..(p.length - 1) : ~checkbyte(resourceid1, resourceid2, j) THEN "noconflict"
    ELSE "next"

\* segmentverdict asking for LockSame on both records.
segmentverdict_bothlocksame(p, q, resourceid1, resourceid2) ==
    IF p.flag = "LockAll" \/ q.flag = "LockAll" THEN "conflict"
    ELSE IF (p.flag = "LockSame" /\ q.flag = "LockSame") /\ p.length = q.length THEN "conflict"
    ELSE IF p.length # q.length THEN "noconflict"
    ELSE IF \E j \in 0..(p.length - 1) : ~checkbyte(resourceid1, resourceid2, j) THEN "noconflict"
    ELSE "next"

\* segmentverdict taking LockSame as a conflict whatever the two lengths.
segmentverdict_locksameanylength(p, q, resourceid1, resourceid2) ==
    IF p.flag = "LockAll" \/ q.flag = "LockAll" THEN "conflict"
    ELSE IF p.flag = "LockSame" \/ q.flag = "LockSame" THEN "conflict"
    ELSE IF p.length # q.length THEN "noconflict"
    ELSE IF \E j \in 0..(p.length - 1) : ~checkbyte(resourceid1, resourceid2, j) THEN "noconflict"
    ELSE "next"

\* segmentverdict looking for LockSame in the segment of the first record only.
segmentverdict_ownlocksame(p, q, resourceid1, resourceid2) ==
    IF p.flag = "LockAll" \/ q.flag = "LockAll" THEN "conflict"
    ELSE IF p.flag = "LockSame" /\ p.length = q.length THEN "conflict"
    ELSE IF p.length # q.length THEN "noconflict"
    ELSE IF \E j \in 0..(p.length - 1) : ~checkbyte(resourceid1, resourceid2, j) THEN "noconflict"
    ELSE "next"

\* One pass of the loop body of isconflictrecord over the segment p of the
\* first record and the segment q read from the second: "conflict" and
\* "noconflict" are its return statements, "next" is reaching ++i.
segmentverdict(p, q, resourceid1, resourceid2) ==
    IF p.flag = "LockAll" \/ q.flag = "LockAll" THEN "conflict"
    ELSE IF (p.flag = "LockSame" \/ q.flag = "LockSame") /\ p.length = q.length THEN "conflict"
    ELSE IF p.length # q.length THEN "noconflict"
    ELSE IF \E j \in 0..(p.length - 1) : ~checkbyte(resourceid1, resourceid2, j) THEN "noconflict"
    ELSE "next"

\* std::get<4>(reflockrecord2)[i] is read without a bound check: for an
\* index past the end the read is undefined and yields whatever mem holds.
GarbageFlags == {"LockAll", "LockSame", "?"}
GarbageLengths == 0..(MaxSegmentLength + 1)
GarbageSegments == {Seg(f, l) : f \in GarbageFlags, l \in GarbageLengths}

PastEnd(rec1, rec2) == (Len(rec2.segments) + 1)..Len(rec1.segments)
OobMemory(rec1, rec2) == [PastEnd(rec1, rec2) -> GarbageSegments]

segmentat(rec2, i, mem) == IF i <= Len(rec2.segments) THEN rec2.segments[i] ELSE mem[i]

\* The loop with one byte offset running on from segment to segment: the
\* bytes of segment i start where those of segment i - 1 ended.
RECURSIVE comparesegments_running(_, _, _, _)
comparesegments_running(rec1, rec2, i, mem) ==
    IF i > Len(rec1.segments) THEN FALSE
    ELSE LET RECURSIVE lengthsbefore(_)
             lengthsbefore(n) == IF n = 0 THEN 0 ELSE rec1.segments[n].length + lengthsbefore(n - 1)
             p == rec1.segments[i]
             q == segmentat(rec2, i, mem)
             base == lengthsbefore(i - 1)
         IN  IF p.flag = "LockAll" \/ q.flag = "LockAll" THEN TRUE
             ELSE IF (p.flag = "LockSame" \/ q.flag = "LockSame") /\ p.length = q.length THEN TRUE
             ELSE IF p.length # q.length THEN FALSE
             ELSE IF \E j \in 0..(p.length - 1) :
                        base + j < 8 /\ ~checkbyte(rec1.resourceId, rec2.resourceId, base + j)
             THEN FALSE
             ELSE comparesegments_running(rec1, rec2, i + 1, mem)

RECURSIVE comparesegments(_, _, _, _)
comparesegments(rec1, rec2, i, mem) ==
    IF i > Len(rec1.segments) THEN FALSE
    ELSE LET v == segmentverdict(rec1.segments[i], segmentat(rec2, i, mem),
                                 rec1.resourceId, rec2.resourceId)
         IN  IF v = "conflict" THEN TRUE
             ELSE IF v = "noconflict" THEN FALSE
             ELSE comparesegments(rec1, rec2, i + 1, mem)

\* isconflictrecord without its test for two Read locks.
isconflictrecord_readscompared(reflockrecord1, reflockrecord2, mem) ==
    comparesegments(reflockrecord1, reflockrecord2, 1, mem)

isconflictrecord(reflockrecord1, reflockrecord2, mem) ==
    IF reflockrecord1.lockType = "Read" /\ reflockrecord2.lockType = "Read" THEN FALSE
    ELSE comparesegments(reflockrecord1, reflockrecord2, 1, mem)

\* Whether the evaluation reads a segment of the second record at an index
\* past its end: the loop reaches position Len + 1 of the first record and
\* the first operand of || there (p.first is LockAll) is false.
RECURSIVE readsfrom(_, _, _)
readsfrom(rec1, rec2, i) ==
    IF i > Len(rec1.segments) THEN FALSE
    ELSE IF i > Len(rec2.segments) THEN rec1.segments[i].flag # "LockAll"
    ELSE /\ segmentverdict(rec1.segments[i], rec2.segments[i],
                           rec1.resourceId, rec2.resourceId) = "next"
         /\ readsfrom(rec1, rec2, i + 1)

readspastend(reflockrecord1, reflockrecord2) ==
    /\ ~(reflockrecord1.lockType = "Read" /\ reflockrecord2.lockType = "Read")
    /\ readsfrom(reflockrecord1, reflockrecord2, 1)

\* What one call isconflictrecord(p, q) can do: return true, return false,
\* or fault on the undefined read.
recordoutcomes(rec1, rec2) ==
    {IF isconflictrecord(rec1, rec2, mem) THEN "conflict" ELSE "noconflict" :
        mem \in OobMemory(rec1, rec2)}
    \cup (IF readspastend(rec1, rec2) THEN {"fault"} ELSE {})

\* A scan that calls isconflictrecord on pairs[k], pairs[k+1], ... and stops
\* at the first call that returns true: the set of its possible ends, k for
\* "pair k conflicts", 0 for "no pair conflicts", -1 for a fault.
RECURSIVE scanfrom(_, _)
scanfrom(pairs, k) ==
    IF k > Len(pairs) THEN {0}
    ELSE LET o == recordoutcomes(pairs[k].p, pairs[k].q)
         IN  (IF "conflict" \in o THEN {k} ELSE {})
             \cup (IF "fault" \in o THEN {-1} ELSE {})
             \cup (IF "noconflict" \in o THEN scanfrom(pairs, k + 1) ELSE {})

(***************************************************************************)
(* isconflictrequest                                                        *)
(***************************************************************************)
\* The pairs (i, j), i < j, in the order of the two nested loops.
RECURSIVE requestpairs(_, _, _)
requestpairs(batch, i, j) ==
    IF i > Len(batch) THEN <<>>
    ELSE IF j > Len(batch) THEN requestpairs(batch, i + 1, i + 2)
    ELSE <<[p |-> batch[i], q |-> batch[j], id |-> 0, rec |-> batch[j]]>>
         \o requestpairs(batch, i, j + 1)

\* isconflictrequest without the single-record return and with the inner
\* loop of the first record starting at the record itself.
isconflictrequest_selfpair(reflockrequeststructure) ==
    IF Len(reflockrequeststructure) = 0 THEN {0}
    ELSE scanfrom(<<[p |-> reflockrequeststructure[1], q |-> reflockrequeststructure[1],
                     id |-> 0, rec |-> reflockrequeststructure[1]]>>
                  \o requestpairs(reflockrequeststructure, 1, 2), 1)

\* isconflictrequest comparing each record with its successor only.
isconflictrequest_adjacent(reflockrequeststructure) ==
    IF Len(reflockrequeststructure) = 1 THEN {0}
    ELSE scanfrom([k \in 1..(Len(reflockrequeststructure) - 1) |->
                      [p |-> reflockrequeststructure[k], q |-> reflockrequeststructure[k + 1],
                       id |-> 0, rec |-> reflockrequeststructure[k + 1]]], 1)

\* The possible results: TRUE, FALSE, or "fault" rendered as the pair's end.
isconflictrequest(reflockrequeststructure) ==
    IF Len(reflockrequeststructure) = 1 THEN {0}
    ELSE scanfrom(requestpairs(reflockrequeststructure, 1, 2), 1)

(***************************************************************************)
(* generateTransactionID and isconflictwithtable                            *)
(***************************************************************************)
\* generateTransactionID stepping the counter twice.
generateTransactionID_twice(tid) == tid + 2

\* ++transactionID on a uint32_t: the largest value steps to 0.
generateTransactionID(tid) ==
    IF tid \div HalfWord = HalfWord - 1 /\ tid % HalfWord = HalfWord - 1 THEN 0 ELSE tid + 1

\* emplace of a batch that was already moved from: the entry holds no record.
emplace_movedfrom(table, id, batch) ==
    IF id \in DOMAIN table THEN table
    ELSE [k \in DOMAIN table \cup {id} |-> IF k = id THEN <<>> ELSE table[k]]

\* std::map::emplace: no effect when the key is already present.
emplace(table, id, batch) ==
    IF id \in DOMAIN table THEN table
    ELSE [k \in DOMAIN table \cup {id} |-> IF k = id THEN batch ELSE table[k]]

Min(S) == CHOOSE m \in S : \A x \in S : m <= x

\* The records of the table in iteration order: ascending key, then the
\* order inside each entry.
RECURSIVE tablerecords(_, _)
tablerecords(table, keys) ==
    IF keys = {} THEN <<>>
    ELSE LET m == Min(keys)
         IN  [k \in 1..Len(table[m]) |-> [id |-> m, rec |-> table[m][k]]]
             \o tablerecords(table, keys \ {m})

\* The three loops nested the other way: table entry outermost, then the
\* record of the entry, then the record of the request.
tablepairs_tablefirst(batch, table) ==
    LET held == tablerecords(table, DOMAIN table)
        n == Len(batch)
    IN  [k \in 1..(Len(held) * n) |->
            [p |-> batch[((k - 1) % n) + 1],
             q |-> held[((k - 1) \div n) + 1].rec,
             id |-> held[((k - 1) \div n) + 1].id,
             rec |-> held[((k - 1) \div n) + 1].rec]]

\* The calls isconflictrecord(lockrecord1, lockrecord2) of the three nested
\* loops, in order: batch record outermost, table entry, record of the entry.
tablepairs(batch, table) ==
    LET held == tablerecords(table, DOMAIN table)
        n == Len(held)
    IN  [k \in 1..(Len(batch) * n) |->
            [p |-> batch[((k - 1) \div n) + 1],
             q |-> held[((k - 1) % n) + 1].rec,
             id |-> held[((k - 1) % n) + 1].id,
             rec |-> held[((k - 1) % n) + 1].rec]]

\* The value Acquirelock or Releaselock hands back, by what the nested
\* pairs of rcacquirelock / rcreleaselockapi encode:
\*   Acquirelock  (true, (false, 0))            kind "InvalidRequest"
\*                (true, (true, 1))             kind "SelfConflict"
\*                (false, (true, (id, rec)))    kind "TableConflict"
\*                (false, (false, id))          kind "Granted"
\*   Releaselock  (false, false)                kind "InvalidTransactionId"
\*                (true, (false, (id, rec)))    kind "NotOwner"
\*                (true, (true, (0, lockrequest())))  kind "Released"
\* kind "Fault" stands for a call that did not return: the process died on
\* an undefined read.
Result(op, kind, id, rec) == [op |-> op, kind |-> kind, id |-> id, rec |-> rec]

\* An outcome of a call: what it returns and the lock object it leaves.
Outcome(result, table, tid) == [ret |-> result, table |-> table, tid |-> tid]

Fault(op, table, tid) == Outcome(Result(op, "Fault", 0, EmptyRequest), table, tid)

\* isconflictwithtable drawing the transaction id before the scan, so that a
\* rejected request has consumed one.
isconflictwithtable_idfirst(reflockrequeststructure, table, tid) ==
    IF DOMAIN table = {}
    THEN {Outcome(Result("Acquirelock", "Granted", generateTransactionID(tid), EmptyRequest),
                  emplace(table, generateTransactionID(tid), reflockrequeststructure),
                  generateTransactionID(tid))}
    ELSE LET pairs == tablepairs(reflockrequeststructure, table)
         IN  {IF e = -1 THEN Fault("Acquirelock", table, tid)
              ELSE IF e > 0
              THEN Outcome(Result("Acquirelock", "TableConflict", pairs[e].id, pairs[e].rec),
                           table, generateTransactionID(tid))
              ELSE Outcome(Result("Acquirelock", "Granted", generateTransactionID(tid),
                                  EmptyRequest),
                           emplace(table, generateTransactionID(tid), reflockrequeststructure),
                           generateTransactionID(tid)) :
              e \in scanfrom(pairs, 1)}

\* isconflictwithtable restarting the numbering when it finds the table empty.
isconflictwithtable_restart(reflockrequeststructure, table, tid) ==
    IF DOMAIN table = {}
    THEN {Outcome(Result("Acquirelock", "Granted", 1, EmptyRequest),
                  emplace(table, 1, reflockrequeststructure), 1)}
    ELSE LET pairs == tablepairs(reflockrequeststructure, table)
         IN  {IF e = -1 THEN Fault("Acquirelock", table, tid)
              ELSE IF e > 0
              THEN Outcome(Result("Acquirelock", "TableConflict", pairs[e].id, pairs[e].rec),
                           table, tid)
              ELSE Outcome(Result("Acquirelock", "Granted", generateTransactionID(tid),
                                  EmptyRequest),
                           emplace(table, generateTransactionID(tid), reflockrequeststructure),
                           generateTransactionID(tid)) :
              e \in scanfrom(pairs, 1)}

\* isconflictwithtable reporting the record of the request (lockrecord1) in
\* place of the held record it collides with.
isconflictwithtable_reportsrequest(reflockrequeststructure, table, tid) ==
    IF DOMAIN table = {}
    THEN {Outcome(Result("Acquirelock", "Granted", generateTransactionID(tid), EmptyRequest),
                  emplace(table, generateTransactionID(tid), reflockrequeststructure),
                  generateTransactionID(tid))}
    ELSE LET pairs == tablepairs(reflockrequeststructure, table)
         IN  {IF e = -1 THEN Fault("Acquirelock", table, tid)
              ELSE IF e > 0
              THEN Outcome(Result("Acquirelock", "TableConflict", pairs[e].id, pairs[e].p),
                           table, tid)
              ELSE Outcome(Result("Acquirelock", "Granted", generateTransactionID(tid),
                                  EmptyRequest),
                           emplace(table, generateTransactionID(tid), reflockrequeststructure),
                           generateTransactionID(tid)) :
              e \in scanfrom(pairs, 1)}

isconflictwithtable(reflockrequeststructure, table, tid) ==
    IF DOMAIN table = {}
    THEN {Outcome(Result("Acquirelock", "Granted", generateTransactionID(tid), EmptyRequest),
                  emplace(table, generateTransactionID(tid), reflockrequeststructure),
                  generateTransactionID(tid))}
    ELSE LET pairs == tablepairs(reflockrequeststructure, table)
         IN  {IF e = -1 THEN Fault("Acquirelock", table, tid)
              ELSE IF e > 0
              THEN Outcome(Result("Acquirelock", "TableConflict", pairs[e].id, pairs[e].rec),
                           table, tid)
              ELSE Outcome(Result("Acquirelock", "Granted", generateTransactionID(tid),
                                  EmptyRequest),
                           emplace(table, generateTransactionID(tid), reflockrequeststructure),
                           generateTransactionID(tid)) :
              e \in scanfrom(pairs, 1)}

(***************************************************************************)
(* Acquirelock                                                              *)
(***************************************************************************)
\* Acquirelock looking for a conflict inside the request before it validates
\* the records.
AcquirelockOutcomes_conflictfirst(lockrequeststructure, table, tid) ==
    UNION {IF s = -1 THEN {Fault("Acquirelock", table, tid)}
           ELSE IF s > 0
           THEN {Outcome(Result("Acquirelock", "SelfConflict", 0, EmptyRequest), table, tid)}
           ELSE IF \E k \in 1..Len(lockrequeststructure) :
                      ~isvalidlockrequest(lockrequeststructure[k])
           THEN {Outcome(Result("Acquirelock", "InvalidRequest", 0, EmptyRequest), table, tid)}
           ELSE isconflictwithtable(lockrequeststructure, table, tid) :
           s \in isconflictrequest(lockrequeststructure)}

\* Acquirelock leaving its validation loop after the first record.
AcquirelockOutcomes_firstvalidated(lockrequeststructure, table, tid) ==
    IF Len(lockrequeststructure) > 0 /\ ~isvalidlockrequest(lockrequeststructure[1])
    THEN {Outcome(Result("Acquirelock", "InvalidRequest", 0, EmptyRequest), table, tid)}
    ELSE UNION {IF s = -1 THEN {Fault("Acquirelock", table, tid)}
                ELSE IF s > 0
                THEN {Outcome(Result("Acquirelock", "SelfConflict", 0, EmptyRequest), table, tid)}
                ELSE isconflictwithtable(lockrequeststructure, table, tid) :
                s \in isconflictrequest(lockrequeststructure)}

AcquirelockOutcomes(lockrequeststructure, table, tid) ==
    IF \E k \in 1..Len(lockrequeststructure) : ~isvalidlockrequest(lockrequeststructure[k])
    THEN {Outcome(Result("Acquirelock", "InvalidRequest", 0, EmptyRequest), table, tid)}
    ELSE UNION {IF s = -1 THEN {Fault("Acquirelock", table, tid)}
                ELSE IF s > 0
                THEN {Outcome(Result("Acquirelock", "SelfConflict", 0, EmptyRequest), table, tid)}
                ELSE isconflictwithtable(lockrequeststructure, table, tid) :
                s \in isconflictrequest(lockrequeststructure)}

(***************************************************************************)
(* validaterids, isitmylock, releaselock, Releaselock                       *)
(***************************************************************************)
\* validaterids returning after it has looked at the first id.
validaterids_firstonly(refrids, table) == Len(refrids) > 0 => refrids[1] \in DOMAIN table

\* validaterids accepting a list as soon as one of its ids is found.
validaterids_anypresent(refrids, table) ==
    Len(refrids) > 0 => \E k \in 1..Len(refrids) : refrids[k] \in DOMAIN table

validaterids(refrids, table) == \A k \in 1..Len(refrids) : refrids[k] \in DOMAIN table

\* rcrelaselock: (status, (id, record)); fault marks the undefined read of
\* locktable[id][0] in an entry that holds no record.
Ownership(status, id, rec, fault) == [status |-> status, id |-> id, rec |-> rec, fault |-> fault]

RECURSIVE mylockfrom(_, _, _, _)
mylockfrom(refrids, ids, table, k) ==
    IF k > Len(refrids) THEN {Ownership(TRUE, 0, EmptyRequest, FALSE)}
    ELSE LET id == refrids[k]
             \* locktable[id]: an absent key reads as an entry without records
             row == IF id \in DOMAIN table THEN table[id] ELSE <<>>
         IN  IF Len(row) = 0
             THEN {Ownership(FALSE, id, EmptyRequest, TRUE),
                   Ownership(FALSE, id, GarbageRequest, FALSE)}
                  \cup mylockfrom(refrids, ids, table, k + 1)
             ELSE IF row[1].hmcId = ids[1] /\ row[1].sessionId = ids[2]
             THEN mylockfrom(refrids, ids, table, k + 1)
             ELSE {Ownership(FALSE, id, row[1], FALSE)}

\* isitmylock reading the caller's pair as (session-id, hmc-id).
isitmylock_sessionfirst(refrids, ids, table) == mylockfrom(refrids, <<ids[2], ids[1]>>, table, 1)

isitmylock(refrids, ids, table) == mylockfrom(refrids, ids, table, 1)

\* releaselock leaving its loop after the first erase.
releaselock_firstonly(refrids, table) ==
    [k \in DOMAIN table \ {refrids[i] : i \in 1..(IF Len(refrids) > 0 THEN 1 ELSE 0)} |-> table[k]]

releaselock(refrids, table) ==
    [k \in DOMAIN table \ {refrids[i] : i \in 1..Len(refrids)} |-> table[k]]

\* Releaselock erasing the named ids whatever isitmylock answered.
ReleaselockOutcomes_eraseunowned(p, ids, table, tid) ==
    IF ~validaterids(p, table)
    THEN {Outcome(Result("Releaselock", "InvalidTransactionId", 0, EmptyRequest), table, tid)}
    ELSE {IF status.fault THEN Fault("Releaselock", table, tid)
          ELSE IF status.status
          THEN Outcome(Result("Releaselock", "Released", status.id, status.rec),
                       releaselock(p, table), tid)
          ELSE Outcome(Result("Releaselock", "NotOwner", status.id, status.rec),
                       releaselock(p, table), tid) :
          status \in isitmylock(p, ids, table)}

\* Releaselock asking isitmylock before validaterids.
ReleaselockOutcomes_ownerfirst(p, ids, table, tid) ==
    {IF status.fault THEN Fault("Releaselock", table, tid)
     ELSE IF ~status.status
     THEN Outcome(Result("Releaselock", "NotOwner", status.id, status.rec), table, tid)
     ELSE IF ~validaterids(p, table)
     THEN Outcome(Result("Releaselock", "InvalidTransactionId", 0, EmptyRequest), table, tid)
     ELSE Outcome(Result("Releaselock", "Released", status.id, status.rec),
                  releaselock(p, table), tid) :
     status \in isitmylock(p, ids, table)}

ReleaselockOutcomes(p, ids, table, tid) ==
    IF ~validaterids(p, table)
    THEN {Outcome(Result("Releaselock", "InvalidTransactionId", 0, EmptyRequest), table, tid)}
    ELSE {IF status.fault THEN Fault("Releaselock", table, tid)
          ELSE IF status.status
          THEN Outcome(Result("Releaselock", "Released", status.id, status.rec),
                       releaselock(p, table), tid)
          ELSE Outcome(Result("Releaselock", "NotOwner", status.id, status.rec), table, tid) :
          status \in isitmylock(p, ids, table)}

(***************************************************************************)
(* The lock object and the calls made on it.                                *)
(***************************************************************************)
NoArg == [batch |-> <<>>, rids |-> <<>>, ids |-> <<"", "">>]
NoResult == Result("none", "none", 0, EmptyRequest)

Init ==
    /\ locktable = <<>>
    /\ transactionID = 0
    /\ arg = NoArg
    /\ ret = NoResult
    /\ before = [table |-> <<>>, tid |-> 0]
    /\ granted = <<>>
    /\ released = {}
    /\ calls = <<>>

\* No call is in progress and none has faulted: the calls are synchronous
\* and run one at a time.
Idle == ret = NoResult

Acquirelock(lockrequeststructure) ==
    /\ Idle
    /\ \E o \in AcquirelockOutcomes(lockrequeststructure, locktable, transactionID) :
          /\ o.ret.kind = "Granted" => transactionID < MaxTid
          /\ locktable' = o.table
          /\ transactionID' = o.tid
          /\ ret' = o.ret
          /\ granted' = IF o.ret.kind = "Granted" THEN Append(granted, o.ret.id) ELSE granted
    /\ arg' = [NoArg EXCEPT !.batch = lockrequeststructure]
    /\ before' = [table |-> locktable, tid |-> transactionID]
    /\ UNCHANGED <<released, calls>>

Releaselock(p, ids) ==
    /\ Idle
    /\ \E o \in ReleaselockOutcomes(p, ids, locktable, transactionID) :
          /\ locktable' = o.table
          /\ transactionID' = o.tid
          /\ ret' = o.ret
          /\ released' = released \cup (DOMAIN locktable \ DOMAIN o.table)
    /\ arg' = [NoArg EXCEPT !.rids = p, !.ids = ids]
    /\ before' = [table |-> locktable, tid |-> transactionID]
    /\ UNCHANGED <<granted, calls>>

\* The call returns: its caller takes the result and the lock object waits
\* for the next call.  A call that faulted never returns.
Return ==
    /\ ~Idle /\ ret.kind # "Fault"
    /\ arg' = NoArg
    /\ ret' = NoResult
    /\ before' = [table |-> <<>>, tid |-> 0]
    /\ UNCHANGED <<locktable, transactionID, granted, released, calls>>

Next ==
    \/ \E lockrequeststructure \in Batches : Acquirelock(lockrequeststructure)
    \/ \E p \in RidLists, ids \in Identities : Releaselock(p, ids)
    \/ Return

Spec == Init /\ [][Next]_vars

(***************************************************************************)
(* isvalidlockrequest applied to one record.  The records are lists of      *)
(* DontLock segments of length 1 in which up to two positions carry any     *)
(* flag and any length of the ranges below, under every lock type.          *)
(***************************************************************************)
MaxProbeSegments == 7
MaxProbeLength == 5

ProbeTypes == {"Read", "Write", "Exclusive"}
ProbeFlags == {"LockSame", "LockAll", "DontLock", "LockNone"}
ProbeSegments == {Seg(f, l) : f \in ProbeFlags, l \in 0..MaxProbeLength}

Uniform(n, seg) == [k \in 1..n |-> seg]

\* n DontLock segments of length 1 with position i, then position j, replaced.
ProbeSegmentList(n, i, s, j, t) ==
    [[Uniform(n, Seg("DontLock", 1)) EXCEPT ![i] = s] EXCEPT ![j] = t]

ProbeRecord(type, segments) == LockRequest("s1", "c1", type, ResA, segments)

InitValidate ==
    /\ locktable = <<>>
    /\ transactionID = 0
    /\ \E type \in ProbeTypes :
          \/ arg = [NoArg EXCEPT !.batch = <<ProbeRecord(type, <<>>)>>]
          \/ \E n \in 1..MaxProbeSegments, s \in ProbeSegments, t \in ProbeSegments :
                \E i \in 1..n, j \in 1..n :
                   arg = [NoArg EXCEPT
                             !.batch = <<ProbeRecord(type, ProbeSegmentList(n, i, s, j, t))>>]
    /\ ret = NoResult
    /\ before = [table |-> <<>>, tid |-> 0]
    /\ granted = <<>>
    /\ released = {}
    /\ calls = <<>>

\* The call isvalidlockrequest(arg.batch[1]); ret.kind is the bool returned.
Validate ==
    /\ Idle
    /\ ret' = Result("isvalidlockrequest",
                     IF isvalidlockrequest(arg.batch[1]) THEN "true" ELSE "false",
                     0, EmptyRequest)
    /\ UNCHANGED <<locktable, transactionID, arg, before, granted, released, calls>>

NextValidate == Validate

SpecValidate == InitValidate /\ [][NextValidate]_vars

(***************************************************************************)
(* isconflictrecord and isconflictrequest applied to valid records.  The    *)
(* first record of a pair is on ResA, the second on ResA or ResB; a record  *)
(* has 2..MaxPairSegments segments of length 1, at most one of them of      *)
(* length 2 and at most one of them flagged LockSame or LockAll.            *)
(***************************************************************************)
MaxPairSegments == 3

PairSegmentLists ==
    UNION {{[[Uniform(n, Seg("DontLock", 1)) EXCEPT ![i] = Seg(f, 1)]
                EXCEPT ![j] = Seg(@.flag, l)] :
               i \in 1..n, j \in 1..n, f \in {"DontLock", "LockSame", "LockAll"}, l \in 1..2} :
           n \in MinSegments..MaxPairSegments}

FirstRecords ==
    {LockRequest("s1", "c1", type, ResA, segments) :
        type \in {"Read", "Write"}, segments \in PairSegmentLists}

SecondRecords ==
    {LockRequest("s2", "c2", type, resourceid, segments) :
        type \in {"Read", "Write"}, resourceid \in {ResA, ResB}, segments \in PairSegmentLists}

\* The second record of a batch of three: a Write record whose first segment
\* has length 2, a Read record on ResB whose second segment is LockAll.
MiddleRecords ==
    {LockRequest("s2", "c2", "Write", ResA, <<Seg("DontLock", 2), Seg("DontLock", 1)>>),
     LockRequest("s2", "c2", "Read", ResB, <<Seg("DontLock", 1), Seg("LockAll", 1)>>)}

\* The third record of a batch of three: a Write record whose second segment
\* is LockSame, a Read record whose first segment is LockAll.
ThirdRecords ==
    {LockRequest("s1", "c1", "Write", ResA, <<Seg("DontLock", 1), Seg("LockSame", 1)>>),
     LockRequest("s1", "c1", "Read", ResA, <<Seg("LockAll", 1), Seg("DontLock", 1)>>)}

InitPair ==
    /\ locktable = <<>>
    /\ transactionID = 0
    /\ \E a \in FirstRecords :
          \/ arg = [NoArg EXCEPT !.batch = <<a>>]
          \/ \E b \in SecondRecords : arg = [NoArg EXCEPT !.batch = <<a, b>>]
          \/ \E b \in MiddleRecords, c \in ThirdRecords :
                arg = [NoArg EXCEPT !.batch = <<a, b, c>>]
    /\ ret = NoResult
    /\ before = [table |-> <<>>, tid |-> 0]
    /\ granted = <<>>
    /\ released = {}
    /\ calls = <<>>

\* The call isconflictrecord(arg.batch[1], arg.batch[2]); ret.kind is
\* "conflict" for true, "noconflict" for false, "fault" for a call that died
\* on an undefined read.
Compare ==
    /\ Idle /\ Len(arg.batch) = 2
    /\ \E o \in recordoutcomes(arg.batch[1], arg.batch[2]) :
          ret' = Result("isconflictrecord", o, 0, EmptyRequest)
    /\ UNCHANGED <<locktable, transactionID, arg, before, granted, released, calls>>

\* The call isconflictrequest(arg.batch).
SelfCompare ==
    /\ Idle
    /\ \E e \in isconflictrequest(arg.batch) :
          ret' = Result("isconflictrequest",
                        IF e = -1 THEN "fault" ELSE IF e > 0 THEN "conflict" ELSE "noconflict",
                        0, EmptyRequest)
    /\ UNCHANGED <<locktable, transactionID, arg, before, granted, released, calls>>

NextPair ==
    \/ Compare
    \/ SelfCompare
    \/ Acquirelock(arg.batch)

SpecPair == InitPair /\ [][NextPair]_vars

(***************************************************************************)
(* The lock object called from several threads of the host.  The class has  *)
(* no mutex and its members are plain: a call is the sequence of its        *)
(* accesses to locktable and transactionID, and the accesses of different   *)
(* calls interleave.  What runs on the call's own arguments (the            *)
(* validation, isconflictrequest) is part of the step that enters the call. *)
(***************************************************************************)
NumThreads == 2

Threads == 1..NumThreads

ThreadBatches == {<<WriteDont>>, <<ReadAll>>}
ThreadRidLists == {<<1>>, <<1, 2>>}
ThreadIdentities == {<<"c1", "s1">>, <<"c2", "s2">>}

\* A thread's call: where it stands, its arguments, the local transactionID
\* of isconflictwithtable and the value it returned last.
IdleCall ==
    [pc |-> "idle", batch |-> <<>>, rids |-> <<>>, ids |-> <<"", "">>, id |-> 0,
     ret |-> NoResult]

InitThreads ==
    /\ locktable = <<>>
    /\ transactionID = 0
    /\ arg = NoArg
    /\ ret = NoResult
    /\ before = [table |-> <<>>, tid |-> 0]
    /\ granted = <<>>
    /\ released = {}
    /\ calls = [t \in Threads |-> IdleCall]

\* A thread that died on an undefined read took the process with it.
Alive == \A t \in Threads : calls[t].pc # "dead"

At(t, pc) == Alive /\ calls[t].pc = pc

Returns(t, result) == calls' = [calls EXCEPT ![t].pc = "idle", ![t].ret = result]
Dies(t) == calls' = [calls EXCEPT ![t].pc = "dead"]
Goes(t, pc) == calls' = [calls EXCEPT ![t].pc = pc]

\* Acquirelock up to the call of isconflictwithtable.
EnterAcquirelock(t, lockrequeststructure) ==
    /\ At(t, "idle") /\ transactionID < MaxTid
    /\ IF \E k \in 1..Len(lockrequeststructure) : ~isvalidlockrequest(lockrequeststructure[k])
       THEN calls' = [calls EXCEPT ![t] =
                         [IdleCall EXCEPT !.batch = lockrequeststructure,
                                          !.ret = Result("Acquirelock", "InvalidRequest",
                                                         0, EmptyRequest)]]
       ELSE \E s \in isconflictrequest(lockrequeststructure) :
               calls' = [calls EXCEPT ![t] =
                            [IdleCall EXCEPT
                                !.batch = lockrequeststructure,
                                !.pc = IF s = -1 THEN "dead" ELSE IF s > 0 THEN "idle" ELSE "scan",
                                !.ret = IF s > 0
                                        THEN Result("Acquirelock", "SelfConflict", 0, EmptyRequest)
                                        ELSE NoResult]]
    /\ UNCHANGED <<locktable, transactionID, arg, ret, before, granted, released>>

\* isconflictwithtable: locktable.empty() and the loops over the table.
ScanTable(t) ==
    /\ At(t, "scan")
    /\ IF DOMAIN locktable = {} THEN Goes(t, "read")
       ELSE LET pairs == tablepairs(calls[t].batch, locktable)
            IN  \E e \in scanfrom(pairs, 1) :
                   IF e = -1 THEN Dies(t)
                   ELSE IF e > 0
                   THEN Returns(t, Result("Acquirelock", "TableConflict",
                                          pairs[e].id, pairs[e].rec))
                   ELSE Goes(t, "read")
    /\ UNCHANGED <<locktable, transactionID, arg, ret, before, granted, released>>

\* generateTransactionID: ++transactionID reads the member ...
ReadCounter(t) ==
    /\ At(t, "read")
    /\ calls' = [calls EXCEPT ![t].pc = "write",
                              ![t].id = generateTransactionID(transactionID)]
    /\ UNCHANGED <<locktable, transactionID, arg, ret, before, granted, released>>

\* ... and writes it back,
WriteCounter(t) ==
    /\ At(t, "write")
    /\ transactionID' = calls[t].id
    /\ Goes(t, "fetch")
    /\ UNCHANGED <<locktable, arg, ret, before, granted, released>>

\* and return transactionID reads the member again.
FetchCounter(t) ==
    /\ At(t, "fetch")
    /\ calls' = [calls EXCEPT ![t].pc = "emplace", ![t].id = transactionID]
    /\ UNCHANGED <<locktable, transactionID, arg, ret, before, granted, released>>

\* locktable.emplace and the return of Acquirelock.
EmplaceBatch(t) ==
    /\ At(t, "emplace")
    /\ locktable' = emplace(locktable, calls[t].id, calls[t].batch)
    /\ granted' = Append(granted, calls[t].id)
    /\ Returns(t, Result("Acquirelock", "Granted", calls[t].id, EmptyRequest))
    /\ UNCHANGED <<transactionID, arg, ret, before, released>>

\* Releaselock up to the call of isitmylock: validaterids.
EnterReleaselock(t, p, ids) ==
    /\ At(t, "idle")
    /\ calls' = [calls EXCEPT ![t] =
                    IF validaterids(p, locktable)
                    THEN [IdleCall EXCEPT !.rids = p, !.ids = ids, !.pc = "own"]
                    ELSE [IdleCall EXCEPT !.rids = p, !.ids = ids,
                                          !.ret = Result("Releaselock", "InvalidTransactionId",
                                                         0, EmptyRequest)]]
    /\ UNCHANGED <<locktable, transactionID, arg, ret, before, granted, released>>

\* The ids isitmylock has looked up when it returns status: locktable[id]
\* default-constructs the entry of an id that is no longer a key.
lookedup(refrids, status) ==
    IF status.status THEN {refrids[k] : k \in 1..Len(refrids)}
    ELSE LET stop == CHOOSE k \in 1..Len(refrids) :
                        refrids[k] = status.id /\ \A m \in 1..(k - 1) : refrids[m] # status.id
         IN  {refrids[k] : k \in 1..stop}

\* isitmylock.
CheckOwner(t) ==
    /\ At(t, "own")
    /\ \E status \in isitmylock(calls[t].rids, calls[t].ids, locktable) :
          /\ locktable' = [id \in DOMAIN locktable \cup lookedup(calls[t].rids, status) |->
                              IF id \in DOMAIN locktable THEN locktable[id] ELSE <<>>]
          /\ IF status.fault THEN Dies(t)
             ELSE IF status.status THEN Goes(t, "erase")
             ELSE Returns(t, Result("Releaselock", "NotOwner", status.id, status.rec))
    /\ UNCHANGED <<transactionID, arg, ret, before, granted, released>>

\* releaselock and the return of Releaselock.
EraseIds(t) ==
    /\ At(t, "erase")
    /\ locktable' = releaselock(calls[t].rids, locktable)
    /\ released' = released \cup (DOMAIN locktable \ DOMAIN locktable')
    /\ Returns(t, Result("Releaselock", "Released", 0, EmptyRequest))
    /\ UNCHANGED <<transactionID, arg, ret, before, granted>>

NextThreads ==
    \E t \in Threads :
       \/ \E lockrequeststructure \in ThreadBatches : EnterAcquirelock(t, lockrequeststructure)
       \/ ScanTable(t)
       \/ ReadCounter(t)
       \/ WriteCounter(t)
       \/ FetchCounter(t)
       \/ EmplaceBatch(t)
       \/ \E p \in ThreadRidLists, ids \in ThreadIdentities : EnterReleaselock(t, p, ids)
       \/ CheckOwner(t)
       \/ EraseIds(t)

SpecThreads == InitThreads /\ [][NextThreads]_vars

(***************************************************************************)
(* The scan of isconflictwithtable over requests for two resources.  The    *)
(* records are Write locks of two segments, DontLock then LockSame, all of  *)
(* length 1: two of them conflict exactly when they name resource ids with  *)
(* the same first byte.                                                     *)
(***************************************************************************)
ResC == <<3, 1, 0, 0, 0, 0, 0, 0>>

SameA == LockRequest("s1", "c1", "Write", ResA, <<Seg("DontLock", 1), Seg("LockSame", 1)>>)
SameC == LockRequest("s1", "c1", "Write", ResC, <<Seg("DontLock", 1), Seg("LockSame", 1)>>)

ScanBatches == SeqsUpTo({SameA, SameC}, MaxBatch)

NextScan ==
    \/ \E lockrequeststructure \in ScanBatches : Acquirelock(lockrequeststructure)
    \/ Return

SpecScan == Init /\ [][NextScan]_vars

(***************************************************************************)
(* A caller that keeps a request refused with TableConflict in order to     *)
(* repeat it.  calls holds what the caller kept of the first such refusal:  *)
(* the request, the table it was refused against and the ids granted up to  *)
(* then.                                                                    *)
(***************************************************************************)
RetryBatches == {<<ReadAll>>, <<WriteDont>>, <<WriteThree, WriteDont>>}

\* Acquirelock returns (false, (true, (id, record))) and the caller keeps
\* the request.
ReturnRejected ==
    /\ ~Idle /\ ret.kind = "TableConflict" /\ calls = <<>>
    /\ calls' = <<[batch |-> arg.batch, table |-> locktable, granted |-> granted]>>
    /\ arg' = NoArg
    /\ ret' = NoResult
    /\ before' = [table |-> <<>>, tid |-> 0]
    /\ UNCHANGED <<locktable, transactionID, granted, released>>

NextRetry ==
    \/ \E lockrequeststructure \in RetryBatches : Acquirelock(lockrequeststructure)
    \/ \E p \in RidLists, ids \in Identities : Releaselock(p, ids)
    \/ Return
    \/ ReturnRejected

SpecRetry == Init /\ [][NextRetry]_vars

(***************************************************************************)
(* The lock object late in the life of the process: 2^32 - 1 ids have been  *)
(* issued, the transaction with id 1 was never released and still holds     *)
(* ReadAll, every other one was released.  A uint32_t value of 2^31 or more *)
(* is written as the 32-bit two's-complement integer with the same bits, so *)
(* that 0xFFFFFFFF is -1 and ++transactionID takes it to 0.  granted and    *)
(* released count from this state on.                                       *)
(***************************************************************************)
LastWord == -1

WrapBatches == {<<ReadAll>>, <<ReadOther>>, <<WriteDont>>}

InitWrap ==
    /\ locktable = emplace(<<>>, 1, <<ReadAll>>)
    /\ transactionID = LastWord
    /\ arg = NoArg
    /\ ret = NoResult
    /\ before = [table |-> <<>>, tid |-> 0]
    /\ granted = <<>>
    /\ released = {}
    /\ calls = <<>>

NextWrap ==
    \/ \E lockrequeststructure \in WrapBatches : Acquirelock(lockrequeststructure)
    \/ \E p \in RidLists, ids \in Identities : Releaselock(p, ids)
    \/ Return

SpecWrap == InitWrap /\ [][NextWrap]_vars

(***************************************************************************)
(* Vocabulary of the properties.                                            *)
(***************************************************************************)
AcquireRejections == {"InvalidRequest", "SelfConflict", "TableConflict"}

Acquired == ret.op = "Acquirelock"
Releasing == ret.op = "Releaselock"

RidSet == {arg.rids[k] : k \in 1..Len(arg.rids)}
AllPresent == \A id \in RidSet : id \in DOMAIN before.table
AllHoldRecords == \A id \in RidSet : Len(before.table[id]) > 0

\* The caller's pair matches the first record of the entry, the pair being
\* (hmc-id, session-id) as isitmylock reads it.
Owns(ids, table, id) ==
    /\ Len(table[id]) > 0
    /\ table[id][1].hmcId = ids[1]
    /\ table[id][1].sessionId = ids[2]

\* The entry holds a record and the caller's pair does not match it.
HeldByOther(ids, table, id) ==
    /\ Len(table[id]) > 0
    /\ ~(table[id][1].hmcId = ids[1] /\ table[id][1].sessionId = ids[2])

SameEntries(keys) == \A id \in keys : id \in DOMAIN locktable /\ locktable[id] = before.table[id]

Unchanged == locktable = before.table /\ transactionID = before.tid

(***************************************************************************)
(* C1: in every reachable state no two held records conflict: for entries  *)
(* t1 < t2 every record r2 of t2 and r1 of t1 has conflicts(r2, r1) =      *)
(* false, and inside one entry every pair i < j has                         *)
(* conflicts(batch[i], batch[j]) = false.  conflicts is isconflictrecord,   *)
(* whatever the out-of-range reads of the call yield.                       *)
(***************************************************************************)
NeverConflicts(rec1, rec2) ==
    \A mem \in OobMemory(rec1, rec2) : ~isconflictrecord(rec1, rec2, mem)

C1_NoHeldRecordsConflict ==
    /\ \A t1 \in DOMAIN locktable, t2 \in DOMAIN locktable :
          t1 < t2 =>
             \A i \in 1..Len(locktable[t2]), j \in 1..Len(locktable[t1]) :
                NeverConflicts(locktable[t2][i], locktable[t1][j])
    /\ \A t \in DOMAIN locktable :
          \A i \in 1..Len(locktable[t]), j \in 1..Len(locktable[t]) :
             i < j => NeverConflicts(locktable[t][i], locktable[t][j])

\* The same statement for the pairs whose comparison stays inside both
\* segment lists; it holds.
HeldRecordsInRangeDoNotConflict ==
    /\ \A t1 \in DOMAIN locktable, t2 \in DOMAIN locktable :
          t1 < t2 =>
             \A i \in 1..Len(locktable[t2]), j \in 1..Len(locktable[t1]) :
                ~readspastend(locktable[t2][i], locktable[t1][j])
                   => NeverConflicts(locktable[t2][i], locktable[t1][j])
    /\ \A t \in DOMAIN locktable :
          \A i \in 1..Len(locktable[t]), j \in 1..Len(locktable[t]) :
             (i < j /\ ~readspastend(locktable[t][i], locktable[t][j]))
                => NeverConflicts(locktable[t][i], locktable[t][j])

(***************************************************************************)
(* C2: from the empty table, Acquirelock of the one-record batch WriteDont  *)
(* (Write, two DontLock segments of length 2) returns Granted(1); a second  *)
(* Acquirelock of the same batch ...                                        *)
(***************************************************************************)
FirstWriteDont ==
    Acquired /\ arg.batch = <<WriteDont>> /\ before.table = <<>> /\ before.tid = 0

SecondWriteDont ==
    Acquired /\ arg.batch = <<WriteDont>>
             /\ before.table = (1 :> <<WriteDont>>) /\ before.tid = 1

\* ... as claimed: is rejected with TableConflict(1, WriteDont) and leaves
\* the table holding only transaction 1.
C2_IdenticalBatchRejected ==
    /\ FirstWriteDont => ret.kind = "Granted" /\ ret.id = 1
    /\ SecondWriteDont =>
          /\ ret.kind = "TableConflict" /\ ret.id = 1 /\ ret.rec = WriteDont
          /\ locktable = (1 :> <<WriteDont>>)

\* C2 as amended: ... is Granted(2), and the table then holds the batch
\* under both transaction 1 and transaction 2.
C2_IdenticalBatchGranted ==
    /\ FirstWriteDont => ret.kind = "Granted" /\ ret.id = 1
    /\ SecondWriteDont =>
          /\ ret.kind = "Granted" /\ ret.id = 2
          /\ locktable = (1 :> <<WriteDont>>) @@ (2 :> <<WriteDont>>)

C2_Witness == SecondWriteDont /\ ret.kind = "Granted"

(***************************************************************************)
(* C3: whenever Acquirelock returns a rejection (InvalidRequest,            *)
(* SelfConflict or TableConflict) the lock table and the transaction-id     *)
(* counter are what they were before the call.                              *)
(***************************************************************************)
C3_RejectedAcquireChangesNothing ==
    (Acquired /\ ret.kind \in AcquireRejections) => Unchanged

C3_Witness ==
    Acquired /\ ret.kind = "TableConflict" /\ Len(arg.batch) = 2 /\ DOMAIN locktable # {}

(***************************************************************************)
(* C4: whenever Acquirelock(batch) returns Granted(id), id was not a key of *)
(* the table before the call, and afterwards the table is the old table     *)
(* plus the one entry id -> batch, the records in the order submitted and   *)
(* every earlier entry unchanged.                                           *)
(***************************************************************************)
C4_GrantAddsExactlyTheBatch ==
    (Acquired /\ ret.kind = "Granted") =>
        /\ ret.id \notin DOMAIN before.table
        /\ DOMAIN locktable = DOMAIN before.table \cup {ret.id}
        /\ locktable[ret.id] = arg.batch
        /\ SameEntries(DOMAIN before.table)

C4_Witness ==
    /\ Acquired /\ ret.kind = "Granted"
    /\ DOMAIN before.table # {}
    /\ Len(arg.batch) = 2 /\ arg.batch[1] # arg.batch[2]

(***************************************************************************)
(* C5: the k-th Granted result of the process carries id k, whatever        *)
(* Releaselock calls and rejected Acquirelock calls come in between, so     *)
(* the ids are strictly increasing and never repeat.                        *)
(***************************************************************************)
C5_KthGrantHasIdK == \A k \in 1..Len(granted) : granted[k] = k

C5_Witness ==
    /\ Acquired /\ ret.kind = "Granted" /\ Len(granted) = 2
    /\ released # {}

(***************************************************************************)
(* C6: a transaction id that was released is never issued again, also when  *)
(* the release emptied the table.                                           *)
(***************************************************************************)
C6_ReleasedIdNeverReissued ==
    /\ (Acquired /\ ret.kind = "Granted") => ret.id \notin released
    /\ DOMAIN locktable \cap released = {}

C6_Witness ==
    /\ Acquired /\ ret.kind = "Granted"
    /\ before.table = <<>> /\ released # {}

(***************************************************************************)
(* C7: if any id in the list passed to Releaselock is absent from the lock  *)
(* table, the call returns InvalidTransactionId and the table is unchanged, *)
(* even when other ids of the list are present and owned by the caller.     *)
(***************************************************************************)
C7_AbsentIdRejectsWholeRelease ==
    (Releasing /\ ~AllPresent) => (ret.kind = "InvalidTransactionId" /\ Unchanged)

C7_Witness ==
    /\ Releasing /\ ~AllPresent
    /\ \E id \in RidSet : id \in DOMAIN before.table /\ Owns(arg.ids, before.table, id)

(***************************************************************************)
(* C8: if all ids passed to Releaselock are present but at least one is     *)
(* held by a different identity, the call returns NotOwner(id, record), id  *)
(* the first id in list order whose batch the caller does not own and       *)
(* record the first record of that id's batch; no entry is removed.         *)
(***************************************************************************)
FirstOf(P(_)) == CHOOSE k \in 1..Len(arg.rids) : P(k) /\ \A m \in 1..(k - 1) : ~P(m)

C8_FirstForeignIdReported ==
    (Releasing /\ AllPresent /\ \E id \in RidSet : HeldByOther(arg.ids, before.table, id)) =>
        LET foreign(k) == HeldByOther(arg.ids, before.table, arg.rids[k])
            id == arg.rids[FirstOf(foreign)]
        IN  /\ ret.kind = "NotOwner"
            /\ ret.id = id
            /\ ret.rec = before.table[id][1]
            /\ Unchanged

\* The same statement for lists that name no entry without records; it holds.
ForeignIdReportedAmongRecordHolders ==
    (Releasing /\ AllPresent /\ AllHoldRecords
        /\ \E id \in RidSet : HeldByOther(arg.ids, before.table, id)) =>
        LET foreign(k) == HeldByOther(arg.ids, before.table, arg.rids[k])
            id == arg.rids[FirstOf(foreign)]
        IN  /\ ret.kind = "NotOwner"
            /\ ret.id = id
            /\ ret.rec = before.table[id][1]
            /\ Unchanged

(***************************************************************************)
(* C9: if every id passed to Releaselock is present and owned by the        *)
(* caller, the call returns Released, afterwards none of the named ids is a *)
(* key of the table, and every entry that was not named is unchanged.       *)
(***************************************************************************)
C9_OwnedIdsAreReleased ==
    (Releasing /\ AllPresent /\ \A id \in RidSet : Owns(arg.ids, before.table, id)) =>
        /\ ret.kind = "Released"
        /\ DOMAIN locktable = DOMAIN before.table \ RidSet
        /\ SameEntries(DOMAIN before.table \ RidSet)
        /\ transactionID = before.tid

C9_Witness ==
    /\ Releasing /\ ret.kind = "Released"
    /\ RidSet # {} /\ DOMAIN locktable # {}

(***************************************************************************)
(* C10: Releaselock of ids that are all present (each entry holding a       *)
(* record) is accepted exactly when, for every named id, the caller's pair  *)
(* matches the first record of that id's batch ...                          *)
(***************************************************************************)
\* ... as claimed, the pair being (sessionId, consoleId).
C10_PairIsSessionThenConsole ==
    (Releasing /\ AllPresent /\ AllHoldRecords) =>
        (ret.kind = "Released" <=>
            \A id \in RidSet : /\ arg.ids[1] = before.table[id][1].sessionId
                               /\ arg.ids[2] = before.table[id][1].hmcId)

\* C10 as amended: ... the pair being (consoleId, sessionId): its first
\* component is compared with the record's hmc-id, its second with the
\* record's session-id.
C10_PairIsConsoleThenSession ==
    (Releasing /\ AllPresent /\ AllHoldRecords) =>
        (ret.kind = "Released" <=>
            \A id \in RidSet : /\ arg.ids[1] = before.table[id][1].hmcId
                               /\ arg.ids[2] = before.table[id][1].sessionId)

C10_Witness ==
    /\ Releasing /\ ret.kind = "Released"
    /\ AllPresent /\ AllHoldRecords
    /\ arg.ids = <<"c1", "s1">>
    /\ \E id \in RidSet : before.table[id][1].sessionId = "s1"

(***************************************************************************)
(* C11: once a Releaselock has returned Released for a list of ids, every   *)
(* later Releaselock whose list names one of those ids returns              *)
(* InvalidTransactionId and changes nothing, whatever pair the caller       *)
(* passes and whatever Acquirelock calls came in between.                   *)
(***************************************************************************)
NamesReleasedId == \E k \in 1..Len(arg'.rids) : arg'.rids[k] \in released

C11_ReleasedIdStaysInvalid ==
    [][(Idle /\ ret'.op = "Releaselock" /\ NamesReleasedId) =>
          (ret'.kind = "InvalidTransactionId" /\ UNCHANGED <<locktable, transactionID>>)]_vars

\* A second release of id 1 by its owner, after id 2 was granted.
C11_Witness ==
    /\ Releasing /\ ret.kind = "InvalidTransactionId"
    /\ 1 \in RidSet /\ 1 \in released
    /\ Len(granted) = 2 /\ 2 \in DOMAIN locktable
    /\ arg.ids = <<"c1", "s1">>

(***************************************************************************)
(* C12: a table entry stays in the table with its batch unchanged across    *)
(* every step except a Releaselock that names its id and returns Released:  *)
(* no Acquirelock, granted or rejected, no rejected Releaselock and no      *)
(* Releaselock of other ids removes or alters it.                           *)
(***************************************************************************)
ReleasedByThisStep(id) ==
    /\ ret'.op = "Releaselock" /\ ret'.kind = "Released"
    /\ \E k \in 1..Len(arg'.rids) : arg'.rids[k] = id

C12_EntryStaysUntilReleased ==
    [][\A id \in DOMAIN locktable :
          \/ id \in DOMAIN locktable' /\ locktable'[id] = locktable[id]
          \/ ReleasedByThisStep(id)]_vars

\* A Releaselock refused for ownership while two entries are held.
C12_Witness ==
    /\ Releasing /\ ret.kind = "NotOwner"
    /\ DOMAIN before.table = {1, 2} /\ DOMAIN locktable = {1, 2}

(***************************************************************************)
(* C13: isvalidlockrequest returns true exactly when the lock type is Read  *)
(* or Write, the record has between 2 and 6 segments, every flag is one of  *)
(* LockSame, LockAll, DontLock, every length is between 1 and 4, and at     *)
(* most one segment carries LockSame or LockAll.                            *)
(***************************************************************************)
Validated == ret.op = "isvalidlockrequest"

FlaggedPositions(rec) ==
    {k \in 1..Len(rec.segments) : rec.segments[k].flag \in {"LockSame", "LockAll"}}

LegalShape(rec) ==
    /\ rec.lockType \in {"Read", "Write"}
    /\ Len(rec.segments) \in 2..6
    /\ \A k \in 1..Len(rec.segments) :
          /\ rec.segments[k].flag \in {"LockSame", "LockAll", "DontLock"}
          /\ rec.segments[k].length \in 1..4

C13_ValidExactlyWhenLegal ==
    Validated =>
        (ret.kind = "true" <=>
            (LegalShape(arg.batch[1]) /\ Cardinality(FlaggedPositions(arg.batch[1])) <= 1))

\* An accepted record at the upper boundaries: six segments, one of length 4.
C13_Witness ==
    /\ Validated /\ ret.kind = "true"
    /\ Len(arg.batch[1].segments) = 6
    /\ \E k \in 1..6 : arg.batch[1].segments[k].length = 4

(***************************************************************************)
(* C14: a record in which two segments carry LockSame or LockAll (two       *)
(* LockSame, two LockAll, or one of each, at any positions) is rejected by  *)
(* isvalidlockrequest; a record of legal shape with exactly one such        *)
(* segment is accepted.                                                     *)
(***************************************************************************)
C14_SecondLockingFlagRejected ==
    Validated =>
        /\ Cardinality(FlaggedPositions(arg.batch[1])) >= 2 => ret.kind = "false"
        /\ (LegalShape(arg.batch[1]) /\ Cardinality(FlaggedPositions(arg.batch[1])) = 1)
              => ret.kind = "true"

\* A record of legal shape rejected for carrying one LockSame and one LockAll.
C14_Witness ==
    /\ Validated /\ ret.kind = "false"
    /\ LegalShape(arg.batch[1])
    /\ \E i \in FlaggedPositions(arg.batch[1]), j \in FlaggedPositions(arg.batch[1]) :
          /\ arg.batch[1].segments[i].flag = "LockSame"
          /\ arg.batch[1].segments[j].flag = "LockAll"

(***************************************************************************)
(* C15: isconflictrecord is false for any two Read records, whatever their  *)
(* flags, lengths, segment counts and resource ids; so Acquirelock never    *)
(* answers SelfConflict to a valid batch of Read records, and grants it     *)
(* whenever every held record is a Read.                                    *)
(***************************************************************************)
AllValid(batch) == \A k \in 1..Len(batch) : isvalidlockrequest(batch[k])
AllRead(batch) == \A k \in 1..Len(batch) : batch[k].lockType = "Read"
HeldRecords(table) == UNION {{table[id][k] : k \in 1..Len(table[id])} : id \in DOMAIN table}
BatchRecords(batch) == {batch[k] : k \in 1..Len(batch)}

C15_ReadsNeverConflict ==
    (Acquired /\ AllValid(arg.batch) /\ AllRead(arg.batch)) =>
        /\ \A a \in BatchRecords(arg.batch) :
              \A b \in {r \in BatchRecords(arg.batch) \cup HeldRecords(before.table) :
                           r.lockType = "Read"} :
                 recordoutcomes(a, b) = {"noconflict"} /\ recordoutcomes(b, a) = {"noconflict"}
        /\ ret.kind # "SelfConflict"
        /\ (\A r \in HeldRecords(before.table) : r.lockType = "Read") => ret.kind = "Granted"

\* Two different Read records granted next to held Read records.
C15_Witness ==
    /\ Acquired /\ ret.kind = "Granted"
    /\ arg.batch = <<ReadAll, ReadOther>>
    /\ HeldRecords(before.table) = {ReadAll, ReadOther}

(***************************************************************************)
(* Vocabulary of the claims about one call isconflictrecord(a, b).          *)
(***************************************************************************)
Compared == ret.op = "isconflictrecord"
BothValid == Len(arg.batch) = 2 /\ AllValid(arg.batch)
BothRead == AllRead(arg.batch)

\* The positions at which both records have a segment.
Aligned == 1..Min({Len(arg.batch[1].segments), Len(arg.batch[2].segments)})

LockAllAt(k) ==
    arg.batch[1].segments[k].flag = "LockAll" \/ arg.batch[2].segments[k].flag = "LockAll"
LockSameAt(k) ==
    arg.batch[1].segments[k].flag = "LockSame" \/ arg.batch[2].segments[k].flag = "LockSame"
SameLengthAt(k) == arg.batch[1].segments[k].length = arg.batch[2].segments[k].length
SameBytesAt(k) ==
    \A j \in 1..arg.batch[1].segments[k].length :
       arg.batch[1].resourceId[j] = arg.batch[2].resourceId[j]

\* Position k decides the pair as conflicting.
ConflictAt(k) == LockAllAt(k) \/ (LockSameAt(k) /\ SameLengthAt(k))

\* Position k decides the pair as not conflicting.
NoConflictAt(k) == ~ConflictAt(k) /\ (~SameLengthAt(k) \/ ~SameBytesAt(k))

(***************************************************************************)
(* C16: for two valid records that are not both Read, if at an aligned      *)
(* segment position either side is flagged LockAll, isconflictrecord        *)
(* returns true ...                                                         *)
(***************************************************************************)
\* ... as claimed: at any aligned position.
C16_LockAllAnywhereConflicts ==
    (Compared /\ BothValid /\ ~BothRead /\ \E k \in Aligned : LockAllAt(k)) =>
        ret.kind = "conflict"

\* C16 as amended: ... provided no earlier position decides the pair as not
\* conflicting (segments of different length, or differing compared bytes,
\* with no deciding flag there).
C16_LockAllConflictsUnlessStoppedEarlier ==
    (Compared /\ BothValid /\ ~BothRead
        /\ \E k \in Aligned : LockAllAt(k) /\ \A m \in 1..(k - 1) : ~NoConflictAt(m)) =>
        ret.kind = "conflict"

\* A Read and a Write record, LockAll on the second record's last segment only.
C16_Witness ==
    /\ Compared /\ ret.kind = "conflict"
    /\ arg.batch[1].lockType = "Read" /\ arg.batch[2].lockType = "Write"
    /\ Len(arg.batch[1].segments) = 3 /\ Len(arg.batch[2].segments) = 3
    /\ arg.batch[2].segments[3].flag = "LockAll"
    /\ \A k \in 1..3 : arg.batch[1].segments[k].flag = "DontLock"

(***************************************************************************)
(* C17: for two valid Write records, if at an aligned segment position      *)
(* either side is flagged LockSame and the two segments there have equal    *)
(* length, isconflictrecord returns true ...                                *)
(***************************************************************************)
BothWrite == \A k \in 1..Len(arg.batch) : arg.batch[k].lockType = "Write"

\* ... as claimed: at any aligned position, whatever the resource-id bytes.
C17_LockSameAnywhereConflicts ==
    (Compared /\ BothValid /\ BothWrite
        /\ \E k \in Aligned : LockSameAt(k) /\ SameLengthAt(k)) =>
        ret.kind = "conflict"

\* C17 as amended: ... provided no earlier position decides the pair as not
\* conflicting; the resource-id bytes matter at those earlier positions only.
C17_LockSameConflictsUnlessStoppedEarlier ==
    (Compared /\ BothValid /\ BothWrite
        /\ \E k \in Aligned : /\ LockSameAt(k) /\ SameLengthAt(k)
                              /\ \A m \in 1..(k - 1) : ~NoConflictAt(m)) =>
        ret.kind = "conflict"

\* Two Write records on different resources, LockSame on the first segment.
C17_Witness ==
    /\ Compared /\ ret.kind = "conflict" /\ BothWrite
    /\ arg.batch[1].resourceId # arg.batch[2].resourceId
    /\ arg.batch[1].segments[1] = Seg("LockSame", 2)
    /\ arg.batch[2].segments[1] = Seg("DontLock", 2)

(***************************************************************************)
(* C18: for two valid records, if their segments at an aligned position     *)
(* have different lengths, isconflictrecord returns false ...               *)
(***************************************************************************)
\* ... as claimed: whatever the lock types and flags.
C18_DifferentLengthsNeverConflict ==
    (Compared /\ BothValid /\ \E k \in Aligned : ~SameLengthAt(k)) =>
        ret.kind = "noconflict"

\* C18 as amended: ... provided neither segment at that position is flagged
\* LockAll and no earlier position decides the pair as conflicting.
C18_DifferentLengthsStopUnlessConflictFirst ==
    (Compared /\ BothValid
        /\ \E k \in Aligned : /\ ~SameLengthAt(k) /\ ~LockAllAt(k)
                              /\ \A m \in 1..(k - 1) : ~ConflictAt(m)) =>
        ret.kind = "noconflict"

\* Two Write records with a LockSame segment facing one of another length.
C18_Witness ==
    /\ Compared /\ ret.kind = "noconflict" /\ BothWrite
    /\ \E k \in Aligned : LockSameAt(k) /\ ~SameLengthAt(k)

(***************************************************************************)
(* C19: isconflictrequest of a batch of exactly one record is false for     *)
(* every record, also a Write record that carries LockAll; so Acquirelock   *)
(* never answers SelfConflict to a valid batch of one record.               *)
(***************************************************************************)
C19_SingleRecordNeverSelfConflicts ==
    /\ (ret.op = "isconflictrequest" /\ Len(arg.batch) = 1) => ret.kind = "noconflict"
    /\ (Acquired /\ Len(arg.batch) = 1 /\ AllValid(arg.batch)) => ret.kind # "SelfConflict"

\* Acquirelock of one Write record that carries LockAll.
C19_Witness ==
    /\ Acquired /\ ret.kind = "Granted" /\ Len(arg.batch) = 1
    /\ arg.batch[1].lockType = "Write"
    /\ \E k \in 1..Len(arg.batch[1].segments) : arg.batch[1].segments[k].flag = "LockAll"

(***************************************************************************)
(* C20: at most one Acquirelock or Releaselock call executes against the    *)
(* lock table at any time: while one call is between its entry and its      *)
(* return, no other call has entered, so no step of another call comes in   *)
(* between its validation and its change of the table.                      *)
(***************************************************************************)
InCall(t) == calls[t].pc # "idle"

C20_OneOperationAtATime ==
    \A t \in Threads, u \in Threads : (InCall(t) /\ InCall(u)) => t = u

(***************************************************************************)
(* C21: in every reachable state all records of one table entry carry the   *)
(* same (sessionId, consoleId) pair, so that the ownership test on the      *)
(* first record of an entry is the ownership test on each of its records.   *)
(***************************************************************************)
C21_OneIdentityPerEntry ==
    \A id \in DOMAIN locktable :
       \A i \in 1..Len(locktable[id]), j \in 1..Len(locktable[id]) :
          /\ locktable[id][i].sessionId = locktable[id][j].sessionId
          /\ locktable[id][i].hmcId = locktable[id][j].hmcId

(***************************************************************************)
(* C22: for a batch of two or more records isconflictrequest returns true   *)
(* exactly when isconflictrecord(batch[i], batch[j]) is true for some       *)
(* i < j: every pair is compared, not only neighbours.  Where a comparison  *)
(* reads past the end of its second record its value is not determined; a   *)
(* true result then rests on a pair that can compare as true, a false       *)
(* result on every pair comparing as false.                                 *)
(***************************************************************************)
SelfCompared == ret.op = "isconflictrequest"
PairOutcomes(i, j) == recordoutcomes(arg.batch[i], arg.batch[j])
OrderedPairs == {ij \in (1..Len(arg.batch)) \X (1..Len(arg.batch)) : ij[1] < ij[2]}

C22_SelfConflictIsSomePair ==
    (SelfCompared /\ Len(arg.batch) >= 2) =>
       /\ ret.kind = "conflict" =>
             \E ij \in OrderedPairs : "conflict" \in PairOutcomes(ij[1], ij[2])
       /\ ret.kind = "noconflict" =>
             \A ij \in OrderedPairs : "noconflict" \in PairOutcomes(ij[1], ij[2])
       /\ (\A ij \in OrderedPairs : Cardinality(PairOutcomes(ij[1], ij[2])) = 1) =>
             (ret.kind = "conflict" <=>
                 \E ij \in OrderedPairs : PairOutcomes(ij[1], ij[2]) = {"conflict"})

\* Three records of which only the first and the third conflict.
C22_Witness ==
    /\ SelfCompared /\ Len(arg.batch) = 3 /\ ret.kind = "conflict"
    /\ PairOutcomes(1, 2) = {"noconflict"}
    /\ PairOutcomes(2, 3) = {"noconflict"}
    /\ PairOutcomes(1, 3) = {"conflict"}

(***************************************************************************)
(* C23: Acquirelock checks in a fixed order.  A batch with an invalid       *)
(* record is answered InvalidRequest, also when it conflicts with itself    *)
(* or with the table; a valid batch that conflicts with itself is answered  *)
(* SelfConflict, also when it conflicts with the table; TableConflict is    *)
(* answered only to a valid batch that is free of self-conflict.            *)
(***************************************************************************)
\* isconflictrecord(rec1, rec2) stays inside the segments of rec2 and
\* returns true; no out-of-range value is read, so none is supplied.
Conflicting(rec1, rec2) ==
    ~readspastend(rec1, rec2) /\ isconflictrecord(rec1, rec2, <<>>)

\* Every pair i < j of the batch compares to one result, one of them true.
SelfConflicts(batch) ==
    /\ Len(batch) >= 2
    /\ \A i \in 1..Len(batch), j \in 1..Len(batch) :
          i < j => ~readspastend(batch[i], batch[j])
    /\ \E i \in 1..Len(batch), j \in 1..Len(batch) :
          i < j /\ Conflicting(batch[i], batch[j])

\* Some record of the batch that conflicts with a record the table holds.
TableConflicts(batch, table) ==
    \E b \in BatchRecords(batch), h \in HeldRecords(table) : Conflicting(b, h)

C23_ChecksInFixedOrder ==
    Acquired =>
       /\ ~AllValid(arg.batch) => ret.kind = "InvalidRequest"
       /\ (AllValid(arg.batch) /\ SelfConflicts(arg.batch)) => ret.kind = "SelfConflict"
       /\ ret.kind = "SelfConflict" => AllValid(arg.batch)
       /\ ret.kind = "TableConflict" =>
             /\ AllValid(arg.batch)
             /\ ~SelfConflicts(arg.batch)

\* An invalid batch that conflicts with itself and with the table.
C23_Witness ==
    /\ Acquired /\ ret.kind = "InvalidRequest"
    /\ SelfConflicts(arg.batch)
    /\ TableConflicts(arg.batch, before.table)

\* A valid batch that conflicts with itself and with the table.
C23_SelfConflictBeforeTable ==
    /\ Acquired /\ ret.kind = "SelfConflict"
    /\ AllValid(arg.batch)
    /\ TableConflicts(arg.batch, before.table)

(***************************************************************************)
(* C24: for a valid batch without self-conflict and a table that is not     *)
(* empty, Acquirelock answers TableConflict exactly when some record of     *)
(* the batch conflicts with some held record, and Granted otherwise; the    *)
(* reported record is stored under the reported id and conflicts with a     *)
(* record of the batch.  Where a comparison reads past the end of its       *)
(* second record its value is not determined: TableConflict then rests on   *)
(* a pair that can compare as true, Granted on every pair comparing as      *)
(* false.                                                                   *)
(***************************************************************************)
\* Every comparison Acquirelock can make for the batch has one result.
Determined(batch, table) ==
    /\ \A i \in 1..Len(batch), j \in 1..Len(batch) :
          i < j => ~readspastend(batch[i], batch[j])
    /\ \A b \in BatchRecords(batch), h \in HeldRecords(table) : ~readspastend(b, h)

StoredUnder(table, id, rec) ==
    id \in DOMAIN table /\ \E k \in 1..Len(table[id]) : table[id][k] = rec

C24_TableConflictIsSomeHeldRecord ==
    (Acquired /\ AllValid(arg.batch) /\ DOMAIN before.table # {}) =>
       /\ ret.kind = "TableConflict" =>
             /\ StoredUnder(before.table, ret.id, ret.rec)
             /\ \E b \in BatchRecords(arg.batch) : "conflict" \in recordoutcomes(b, ret.rec)
       /\ ret.kind = "Granted" =>
             \A b \in BatchRecords(arg.batch), h \in HeldRecords(before.table) :
                "noconflict" \in recordoutcomes(b, h)
       /\ (Determined(arg.batch, before.table) /\ ~SelfConflicts(arg.batch)) =>
             /\ ret.kind = "TableConflict" <=> TableConflicts(arg.batch, before.table)
             /\ ret.kind = "Granted" <=> ~TableConflicts(arg.batch, before.table)

\* A request refused for a record held under the second of two entries.
C24_Witness ==
    /\ Acquired /\ ret.kind = "TableConflict" /\ ret.id = 2
    /\ Cardinality(DOMAIN before.table) = 2
    /\ Determined(arg.batch, before.table)
    /\ TableConflicts(arg.batch, before.table)

(***************************************************************************)
(* C25: when Acquirelock answers TableConflict(heldBy, record), the record  *)
(* is the first conflicting held record in table order: no entry with an    *)
(* id smaller than heldBy holds a record that conflicts with any record of  *)
(* the batch, and no record before the reported one in entry heldBy         *)
(* conflicts with any record of the batch.                                  *)
(***************************************************************************)
MayConflict(rec1, rec2) == "conflict" \in recordoutcomes(rec1, rec2)

\* The places (id, k) of the table that come before the first place of rec
\* in entry heldBy.
PlacesBefore(table, heldBy, rec) ==
    {<<id, k>> \in UNION {{<<i, n>> : n \in 1..Len(table[i])} : i \in DOMAIN table} :
        \/ id < heldBy
        \/ id = heldBy /\ \A n \in 1..k : table[id][n] # rec}

C25_FirstHeldRecordInTableOrder ==
    (Acquired /\ ret.kind = "TableConflict") =>
       \A place \in PlacesBefore(before.table, ret.id, ret.rec) :
          \A b \in BatchRecords(arg.batch) :
             ~MayConflict(b, before.table[place[1]][place[2]])

(***************************************************************************)
(* C25 as the loops run, the record of the request outermost: the reported  *)
(* record is the first held record in table order that conflicts with the   *)
(* first record of the batch that conflicts with any held record.  That     *)
(* batch record conflicts with no held record before the reported one, and  *)
(* the batch records before it conflict with no held record at all.         *)
(***************************************************************************)
C25_FirstHeldRecordOfFirstBatchRecord ==
    (Acquired /\ ret.kind = "TableConflict") =>
       \E k \in 1..Len(arg.batch) :
          /\ MayConflict(arg.batch[k], ret.rec)
          /\ \A place \in PlacesBefore(before.table, ret.id, ret.rec) :
                "noconflict" \in recordoutcomes(arg.batch[k], before.table[place[1]][place[2]])
          /\ \A i \in 1..(k - 1) : \A h \in HeldRecords(before.table) :
                "noconflict" \in recordoutcomes(arg.batch[i], h)

\* The request [SameC, SameA] against SameA held under 1 and SameC under 2:
\* entry 2 is reported although entry 1 conflicts with the second record.
C25_Witness ==
    /\ Acquired /\ ret.kind = "TableConflict" /\ ret.id = 2 /\ ret.rec = SameC
    /\ arg.batch = <<SameC, SameA>>
    /\ before.table[1] = <<SameA>>
    /\ recordoutcomes(SameA, SameA) = {"conflict"}
    /\ recordoutcomes(SameC, SameA) = {"noconflict"}

(***************************************************************************)
(* C26: Releaselock checks that every id exists before it checks who owns   *)
(* them: a list that names an absent id and a present id held by another    *)
(* identity is answered InvalidTransactionId, never NotOwner, in whichever  *)
(* order the two ids are listed.                                            *)
(***************************************************************************)
AbsentAt(k) == k \in 1..Len(arg.rids) /\ arg.rids[k] \notin DOMAIN before.table
ForeignAt(k) ==
    /\ k \in 1..Len(arg.rids)
    /\ arg.rids[k] \in DOMAIN before.table
    /\ HeldByOther(arg.ids, before.table, arg.rids[k])

C26_ExistenceBeforeOwnership ==
    (Releasing /\ \E i \in 1..Len(arg.rids), j \in 1..Len(arg.rids) : AbsentAt(i) /\ ForeignAt(j))
       => ret.kind = "InvalidTransactionId"

\* The id held by another identity is listed first, the absent id second.
C26_Witness ==
    /\ Releasing /\ ret.kind = "InvalidTransactionId"
    /\ ForeignAt(1) /\ AbsentAt(2)

\* The absent id is listed first, the id held by another identity second.
C26_AbsentListedFirst ==
    /\ Releasing /\ ret.kind = "InvalidTransactionId"
    /\ AbsentAt(1) /\ ForeignAt(2)

(***************************************************************************)
(* C27: at a position where both segments are DontLock and of one length L  *)
(* the bytes compared are those at offsets 0..L-1 of the two resource ids,  *)
(* at the first position and at every later one; as L is at most 4, the     *)
(* result of isconflictrecord never depends on the bytes at offsets 4..7.   *)
(***************************************************************************)
UnflaggedAt(k) ==
    arg.batch[1].segments[k].flag = "DontLock" /\ arg.batch[2].segments[k].flag = "DontLock"

\* Position k hands the comparison on to position k + 1.
PassAt(k) == UnflaggedAt(k) /\ SameLengthAt(k) /\ SameBytesAt(k)

HighBytes == {<<0, 0, 0, 0>>, <<9, 0, 0, 1>>}
WithHighBytes(rec, high) == [rec EXCEPT !.resourceId = SubSeq(@, 1, 4) \o high]

C27_BytesFromOffsetZero ==
    (Compared /\ BothValid /\ ~BothRead) =>
       /\ \A k \in Aligned :
             ((\A m \in 1..(k - 1) : PassAt(m)) /\ UnflaggedAt(k) /\ SameLengthAt(k)) =>
                /\ ~SameBytesAt(k) => ret.kind = "noconflict"
                /\ (SameBytesAt(k) /\ k + 1 \in Aligned /\ ConflictAt(k + 1))
                      => ret.kind = "conflict"
       /\ \A high1 \in HighBytes, high2 \in HighBytes :
             recordoutcomes(WithHighBytes(arg.batch[1], high1), WithHighBytes(arg.batch[2], high2))
                = recordoutcomes(arg.batch[1], arg.batch[2])

\* Resource ids that differ at offset 1: two DontLock positions of length 1
\* both compare offset 0 and pass, and the third position decides.
C27_Witness ==
    /\ Compared /\ BothValid /\ ~BothRead /\ ret.kind = "conflict"
    /\ arg.batch[1].resourceId[2] # arg.batch[2].resourceId[2]
    /\ PassAt(1) /\ PassAt(2)
    /\ 3 \in Aligned /\ ConflictAt(3)

(***************************************************************************)
(* C28: isconflictrecord(a, b) is true only if at some compared position    *)
(* the segment of a or the segment of b is LockAll or LockSame: two         *)
(* records whose segments are all DontLock never conflict, whatever their   *)
(* lock types, lengths and resource ids.                                    *)
(***************************************************************************)
\* Position k of the first record's loop has a locking flag on either side.
FlagAt(k) ==
    \/ IsLockingFlag(arg.batch[1].segments[k].flag)
    \/ k \in Aligned /\ IsLockingFlag(arg.batch[2].segments[k].flag)

AllDontLock(rec) == \A k \in 1..Len(rec.segments) : rec.segments[k].flag = "DontLock"

C28_FlaglessPairsNeverConflict ==
    (Compared /\ BothValid /\ ret.kind = "conflict") =>
       /\ \E k \in 1..Len(arg.batch[1].segments) : FlagAt(k)
       /\ ~(AllDontLock(arg.batch[1]) /\ AllDontLock(arg.batch[2]))

\* The same statement for the comparisons that stay inside the segment list
\* of the second record; it holds.
FlaglessPairsInRangeNeverConflict ==
    (Compared /\ BothValid /\ ret.kind = "conflict"
        /\ ~readspastend(arg.batch[1], arg.batch[2])) =>
       /\ \E k \in 1..Len(arg.batch[1].segments) : FlagAt(k)
       /\ ~(AllDontLock(arg.batch[1]) /\ AllDontLock(arg.batch[2]))

(***************************************************************************)
(* C29: in every reachable state every record the lock table holds          *)
(* satisfies what isvalidlockrequest demands: its lock type is Read or      *)
(* Write, it has 2 to 6 segments, every segment has a legal flag and a      *)
(* length in 1..4, and at most one segment is LockSame or LockAll.          *)
(***************************************************************************)
C29_HeldRecordsAreValid ==
    \A rec \in HeldRecords(locktable) :
       LegalShape(rec) /\ Cardinality(FlaggedPositions(rec)) <= 1

\* A batch whose second record is not valid is refused while the table
\* holds records, one of them with a locking flag.
C29_Witness ==
    /\ Acquired /\ ret.kind = "InvalidRequest"
    /\ Len(arg.batch) = 2 /\ LegalShape(arg.batch[1]) /\ ~LegalShape(arg.batch[2])
    /\ \E rec \in HeldRecords(locktable) : FlaggedPositions(rec) # {}

(***************************************************************************)
(* C30: two Acquirelock calls that run at the same time, their validation,  *)
(* scan and insert steps interleaved, end as they would in some serial      *)
(* order: two batches that conflict with each other are never both          *)
(* granted, and no two calls are handed the same transaction id.            *)
(***************************************************************************)
GrantedIdsDiffer == \A i \in 1..Len(granted), j \in 1..Len(granted) : i < j => granted[i] # granted[j]

ConflictingBatchesNotBothHeld ==
    \A t1 \in DOMAIN locktable, t2 \in DOMAIN locktable :
       t1 # t2 =>
          \A i \in 1..Len(locktable[t1]), j \in 1..Len(locktable[t2]) :
             recordoutcomes(locktable[t1][i], locktable[t2][j]) # {"conflict"}

C30_ConcurrentAcquiresSerialize == GrantedIdsDiffer /\ ConflictingBatchesNotBothHeld

(***************************************************************************)
(* C31: a request refused with TableConflict succeeds when it is repeated   *)
(* after every transaction that held a record conflicting with it has been  *)
(* released by its owner, no other request having been granted in between:  *)
(* the repeated Acquirelock returns Granted.                                *)
(***************************************************************************)
\* The ids of the table whose entry holds a record that isconflictrecord
\* can find conflicting with a record of the batch.
ConflictingHolders(batch, table) ==
    {id \in DOMAIN table :
        \E b \in BatchRecords(batch), k \in 1..Len(table[id]) : MayConflict(b, table[id][k])}

\* The step repeats the kept request after its conflicting holders were
\* released and nothing was granted since the refusal.
Retried ==
    /\ Acquired /\ calls # <<>>
    /\ arg.batch = calls[1].batch
    /\ granted = calls[1].granted \/ (ret.kind = "Granted" /\ SubSeq(granted, 1, Len(granted) - 1) = calls[1].granted)
    /\ ConflictingHolders(calls[1].batch, calls[1].table) \subseteq released

C31_RetryAfterReleaseIsGranted == Retried => ret.kind = "Granted"

\* The same statement for the requests whose own records compare inside
\* their segment lists; it holds.
RetryInRangeIsGranted ==
    (Retried /\ \A i \in 1..Len(arg.batch), j \in 1..Len(arg.batch) :
                   i < j => ~readspastend(arg.batch[i], arg.batch[j]))
       => ret.kind = "Granted"

\* A repeated request is granted after the release of its one holder.
RetryGranted == Retried /\ ret.kind = "Granted" /\ released # {}

(***************************************************************************)
(* C32: in every reachable state every entry of the lock table holds at     *)
(* least one record, so that isitmylock, which reads locktable[id][0],      *)
(* reads a record that exists; Acquirelock of an empty request creates no   *)
(* entry.                                                                   *)
(***************************************************************************)
C32_EveryEntryHoldsARecord ==
    /\ \A id \in DOMAIN locktable : Len(locktable[id]) >= 1
    /\ (Acquired /\ arg.batch = <<>>) => DOMAIN locktable = DOMAIN before.table

(***************************************************************************)
(* C33: in every call isconflictrecord(a, b) that Acquirelock makes, inside *)
(* the request and against the table, every index used to read a segment    *)
(* of b is smaller than the number of segments of b, also when a and b are  *)
(* valid records and a has more segments than b.  The first pair of the     *)
(* request and the pair of its first record with the first held record are  *)
(* calls that are always made.                                              *)
(***************************************************************************)
FirstHeld == tablerecords(before.table, DOMAIN before.table)

C33_SegmentIndexInRange ==
    (Acquired /\ AllValid(arg.batch)) =>
       /\ ret.kind # "Fault"
       /\ Len(arg.batch) >= 2 => ~readspastend(arg.batch[1], arg.batch[2])
       /\ (ret.kind \in {"TableConflict", "Granted"} /\ Len(arg.batch) >= 1 /\ Len(FirstHeld) >= 1)
             => ~readspastend(arg.batch[1], FirstHeld[1].rec)

(***************************************************************************)
(* C34: on valid records with the same number of segments isconflictrecord  *)
(* is symmetric, isconflictrecord(a, b) = isconflictrecord(b, a); so        *)
(* isconflictrequest gives one result for [a, b] and [b, a], and whether    *)
(* the second of the two is refused for the first does not depend on which  *)
(* of them was granted first.                                               *)
(***************************************************************************)
SameSegmentCount == Len(arg.batch[1].segments) = Len(arg.batch[2].segments)

\* What Acquirelock answers to [rec] when the table holds [held] under id 1.
AnswersAgainst(rec, held) ==
    {o.ret.kind : o \in isconflictwithtable(<<rec>>, emplace(<<>>, 1, <<held>>), 1)}

C34_ConflictIsSymmetric ==
    (Compared /\ BothValid /\ SameSegmentCount) =>
       /\ recordoutcomes(arg.batch[2], arg.batch[1]) = {ret.kind}
       /\ isconflictrequest(<<arg.batch[1], arg.batch[2]>>)
             = (IF ret.kind = "conflict" THEN {1} ELSE {0})
       /\ isconflictrequest(<<arg.batch[2], arg.batch[1]>>)
             = (IF ret.kind = "conflict" THEN {1} ELSE {0})
       /\ AnswersAgainst(arg.batch[1], arg.batch[2])
             = {IF ret.kind = "conflict" THEN "TableConflict" ELSE "Granted"}
       /\ AnswersAgainst(arg.batch[2], arg.batch[1])
             = {IF ret.kind = "conflict" THEN "TableConflict" ELSE "Granted"}

\* A conflict that rests on a LockSame segment of the second record alone.
C34_Witness ==
    /\ Compared /\ BothValid /\ SameSegmentCount /\ ret.kind = "conflict"
    /\ AllDontLock(arg.batch[1])
    /\ \E k \in Aligned : arg.batch[2].segments[k].flag = "LockSame"

(***************************************************************************)
(* C35: with transactionID a uint32_t that wraps modulo 2^32, every         *)
(* Granted(id) names an id that was not a key of the table before the call  *)
(* and under which the table holds the submitted batch after it: no id of   *)
(* a transaction still held is handed out, and Granted is never reported    *)
(* without the batch having been inserted.                                  *)
(***************************************************************************)
\* The batch the table holds under id, as a sequence of none or one.
StoredBatch(table, id) == IF id \in DOMAIN table THEN <<table[id]>> ELSE <<>>

C35_GrantedIdIsFreshAfterWrap ==
    (Acquired /\ ret.kind = "Granted") =>
       /\ ret.id \notin DOMAIN before.table
       /\ StoredBatch(locktable, ret.id) = <<arg.batch>>

====
